---- MODULE Spec2Model ----
(***************************************************************************)
(* A model of the datatools normalisation core:                            *)
(*   - utils/json_utils.py : expand_lists, expand_and_normalize,           *)
(*     json_indexer                                                        *)
(*   - transforming/transforming_functions.py : find_headers_to_promote,   *)
(*     contains_one_of, contains_multiple_of, remove_top_n,                *)
(*     remove_rows_on_value, promote_nth_row_to_headers, search_in_rows,   *)
(*     search_to_promote, search_to_promote_multi                          *)
(*   - utils/misc.py : first_matching                                      *)
(*   - handlers.py : DataHandler, with uploading/uploaders.py CSVUploader  *)
(*                                                                         *)
(* Every function is a synchronous call.  A specification draws the        *)
(* arguments of a call in its initial state and an action runs a whole     *)
(* call, leaving the caller's (mutable) argument object and the returned   *)
(* value in the state.  The row search may follow one earlier call that    *)
(* returned the table; the handler takes a bounded sequence of calls.      *)
(***************************************************************************)
EXTENDS Integers, Sequences, FiniteSets, TLC

VARIABLES
    pc,              \* "start" before the call, "done" after it
    json_array0,     \* expand_lists: the rows as the caller built them
    json_array,      \* expand_lists: the caller's list object (mutated in place)
    multi_data_att,  \* expand_lists: the declared multi-row attributes
    expand_ret,      \* expand_lists: the returned list
    data0,           \* expand_and_normalize: the rows as the caller built them
    data,            \* expand_and_normalize: the caller's rows after the call
    filtered_data,   \* expand_and_normalize: the list as line 68 built it
    expanding_data,  \* expand_and_normalize: the list line 74 got back
    column_filter,   \* expand_and_normalize: [given, cols]; given = FALSE is None
    multi_row_data,  \* expand_and_normalize: the declared multi-row attributes
    normalized_df,   \* expand_and_normalize: the local table of line 77
    normalize_ret,   \* expand_and_normalize: what the call raised or returned
    df0,             \* find_headers_to_promote: the table as the caller built it
    df,              \* find_headers_to_promote: the caller's table object
    search_values_multiple,  \* find_headers_to_promote: the token groups
    check_header,    \* find_headers_to_promote: check_header
    is_header_row,   \* find_headers_to_promote: the local mask of line 103
    promote_ret,     \* find_headers_to_promote: what the call raised or returned
    table0,          \* row search: the table as it was built, labels 0..n-1
    table,           \* row search: the table the caller holds when it calls
    call,            \* row search: the call made, [fn, values, groups, check, n]
    located,         \* search_in_rows: the returned label, or None
    new_df,          \* promotions: what the call raised or returned
    json_data,       \* json_indexer: the caller's document, [root, nodes]
    index_keys,      \* json_indexer: the tuple of keys and positions
    indexer_ret,     \* json_indexer: what the call raised or returned
    handler,         \* DataHandler: the attributes of the handler object
    csv_uploader,    \* CSVUploader: the file written and _successful_uploads
    uploads,         \* the tables handed to uploader.upload_data, in order
    upload_run,      \* upload_data has run since transformed_data was last set
    handler_raised,  \* DataHandler: what the last call raised, "" if nothing
    n_calls,         \* DataHandler: the number of calls made
    functions,       \* Transformer: the list self._functions
    pipeline,        \* Transformer: the callable self.pipeline
    last_call,       \* Transformer: the last call made, [fn, x, ret, raised]
    n_ops            \* Transformer: the number of calls made

expandVars == <<json_array0, json_array, multi_data_att, expand_ret>>

normalizeVars ==
    <<data0, data, filtered_data, expanding_data, column_filter, multi_row_data,
      normalized_df, normalize_ret>>

headerVars ==
    <<df0, df, search_values_multiple, check_header, is_header_row, promote_ret>>

searchVars == <<table0, table, call, located, new_df>>

indexerVars == <<json_data, index_keys, indexer_ret>>

handlerVars == <<handler, csv_uploader, uploads, upload_run, handler_raised, n_calls>>

transformerVars == <<functions, pipeline, last_call, n_ops>>

restVars == <<indexerVars, handlerVars, transformerVars>>

laterVars == <<searchVars, restVars>>

vars == <<pc, expandVars, normalizeVars, headerVars, laterVars>>

(***************************************************************************)
(* JSON nodes.  Every node is a record of one shape, so that any two nodes *)
(* can be compared:                                                        *)
(*   scalar  : leaf holds the value                                        *)
(*   mapping : fields is the ordered sequence of [key, leaf] entries       *)
(*   list    : items is the sequence of element nodes                      *)
(* A row (a Python dict) is the sequence of its [key, value] entries in    *)
(* insertion order, the order dict.items() iterates in.                    *)
(***************************************************************************)
Scalar(s) == [kind |-> "scalar", leaf |-> s, fields |-> <<>>, items |-> <<>>]

Mapping(f) == [kind |-> "map", leaf |-> "", fields |-> f, items |-> <<>>]

List(it) == [kind |-> "list", leaf |-> "", fields |-> <<>>, items |-> it]

EmptyMapping == Mapping(<<>>)

IsList(value) == value.kind = "list"

\* row[key] = v for a key the row already has: the entry keeps its position.
SetItem(row, j, v) == [row EXCEPT ![j].value = v]

(***************************************************************************)
(* Bounds and the input pools.                                             *)
(***************************************************************************)
MaxListLen == 2

MaxRows == 2

\* The elements a list value holds, by position: a scalar, a mapping, scalars.
ElemAt(i) ==
    CASE i = 1 -> Scalar("y")
      [] i = 2 -> Mapping(<<[key |-> "b", leaf |-> "x"]>>)
      [] i = 3 -> Scalar("z")
      [] OTHER -> Scalar("w")

ListOfLen(n) == List([i \in 1..n |-> ElemAt(i)])

Values == {Scalar("x")} \cup {ListOfLen(n) : n \in 0..MaxListLen}

\* Rows over the attributes "tags" and "other" (either may be missing).
Rows ==
    {<<>>}
    \cup {<<[key |-> k, value |-> v]>> : k \in {"tags", "other"}, v \in Values}
    \cup {<<[key |-> "tags", value |-> v], [key |-> "other", value |-> w]>> :
              v \in Values, w \in Values}

SeqsUpTo(S, n) == UNION {[1..m -> S] : m \in 0..n}

Arrays == SeqsUpTo(Rows, MaxRows)

MultiSets == {{}, {"tags"}, {"other"}, {"tags", "other"}}

(***************************************************************************)
(* expand_lists                                                            *)
(***************************************************************************)
\* ExpandEntry with the undeclared multi-element list unwrapped to its first
\* element instead of being discarded.
ExpandEntry_KeepsFirst(data_el, j, multi) ==
    LET value == data_el[j].value
        n == Len(value.items)
    IN  IF ~IsList(value)
        THEN [row |-> data_el, new |-> <<>>]
        ELSE IF n = 0
        THEN [row |-> SetItem(data_el, j, EmptyMapping), new |-> <<>>]
        ELSE IF data_el[j].key \in multi
        THEN [row |-> SetItem(data_el, j, value.items[1]),
              new |-> [s \in 1..(n - 1) |-> SetItem(data_el, j, value.items[s + 1])]]
        ELSE [row |-> SetItem(data_el, j, value.items[1]), new |-> <<>>]

\* One iteration of the inner loop (json_utils.py:19-36) on entry j of the
\* row data_el: the row after it, and the rows appended to new_objects.
ExpandEntry(data_el, j, multi) ==
    LET key == data_el[j].key
        value == data_el[j].value
        n == Len(value.items)
    IN  IF ~IsList(value)
        THEN [row |-> data_el, new |-> <<>>]
        ELSE IF n = 0
        THEN [row |-> SetItem(data_el, j, EmptyMapping), new |-> <<>>]
        ELSE IF n = 1
        THEN [row |-> SetItem(data_el, j, value.items[1]), new |-> <<>>]
        ELSE IF key \in multi
        THEN [row |-> SetItem(data_el, j, value.items[1]),
              \* new_row = data_el.copy(): the row as it is now, entries
              \* after j still unprocessed
              new |-> [s \in 1..(n - 1) |-> SetItem(data_el, j, value.items[s + 1])]]
        ELSE [row |-> SetItem(data_el, j, EmptyMapping), new |-> <<>>]

\* The inner loop from entry j on.
RECURSIVE ExpandRowFrom(_, _, _)
ExpandRowFrom(data_el, j, multi) ==
    IF j > Len(data_el)
    THEN [row |-> data_el, new |-> <<>>]
    ELSE LET step == ExpandEntry(data_el, j, multi)
             rest == ExpandRowFrom(step.row, j + 1, multi)
         IN  [row |-> rest.row, new |-> step.new \o rest.new]

\* The outer loop from row i on: the rows in place, and new_objects.
RECURSIVE ExpandFrom(_, _, _)
ExpandFrom(arr, i, multi) ==
    IF i > Len(arr)
    THEN [rows |-> arr, new |-> <<>>]
    ELSE LET r == ExpandRowFrom(arr[i], 1, multi)
             rest == ExpandFrom([arr EXCEPT ![i] = r.row], i + 1, multi)
         IN  [rows |-> rest.rows, new |-> r.new \o rest.new]

\* expand_lists with each new row inserted right after the row it was cloned
\* from instead of being collected in new_objects.
RECURSIVE InterleaveFrom(_, _, _)
InterleaveFrom(arr, i, multi) ==
    IF i > Len(arr)
    THEN <<>>
    ELSE LET r == ExpandRowFrom(arr[i], 1, multi)
         IN  <<r.row>> \o r.new \o InterleaveFrom(arr, i + 1, multi)

expand_lists_Interleaved(arr, multi) == InterleaveFrom(arr, 1, multi)

\* json_array.extend(new_objects); return json_array
expand_lists(arr, multi) ==
    LET e == ExpandFrom(arr, 1, multi) IN e.rows \o e.new

\* No table: what a table-valued variable holds before it is assigned.
NoTable == [columns |-> <<>>, rows |-> <<>>]

NoReturn == [raised |-> "", columns |-> <<>>, rows |-> <<>>]

NoFilter == [given |-> FALSE, cols |-> <<>>]

\* The variables of the calls a specification does not make.
IdleExpand ==
    /\ json_array0 = <<>>
    /\ json_array = <<>>
    /\ multi_data_att = {}
    /\ expand_ret = <<>>

IdleNormalize ==
    /\ data0 = <<>>
    /\ data = <<>>
    /\ filtered_data = <<>>
    /\ expanding_data = <<>>
    /\ column_filter = NoFilter
    /\ multi_row_data = {}
    /\ normalized_df = NoTable
    /\ normalize_ret = NoReturn

NoFrame == [columns |-> <<>>, index |-> <<>>, rows |-> <<>>]

IdleHeaders ==
    /\ df0 = NoFrame
    /\ df = NoFrame
    /\ search_values_multiple = <<>>
    /\ check_header = FALSE
    /\ is_header_row = <<>>
    /\ promote_ret = [raised |-> "", table |-> NoFrame]

\* None, as search_in_rows returns it.
None == [found |-> FALSE, label |-> 0]

NoCall == [fn |-> "", values |-> <<>>, groups |-> <<>>, check |-> FALSE, n |-> 0]

IdleSearch ==
    /\ table0 = NoFrame
    /\ table = NoFrame
    /\ call = NoCall
    /\ located = None
    /\ new_df = [raised |-> "", table |-> NoFrame]

NoDocument == [root |-> 0, nodes |-> <<>>]

\* Nothing raised and nothing returned yet.
NoValue == [raised |-> "", ref |-> 0, char |-> ""]

IdleIndexer ==
    /\ json_data = NoDocument
    /\ index_keys = <<>>
    /\ indexer_ret = NoValue

\* pd.DataFrame(): a table is the sequence of its rows here.
EmptyDataFrame == <<>>

\* DataHandler.__init__, lines 15-25.  Line 18 assigns the argument whatever
\* line 17 did, so a handler built without a transformer holds None.
NewHandler(transformer, uploader) ==
    [transformer |-> transformer,
     uploader |-> uploader,
     imported_data |-> EmptyDataFrame,
     transformed_data |-> EmptyDataFrame,
     exported_data |-> EmptyDataFrame,
     failed_exports |-> EmptyDataFrame]

\* Uploader.__init__ and CSVUploader.__init__; no file is written yet.
NewCSVUploader ==
    [file |-> EmptyDataFrame,
     successful_uploads |-> EmptyDataFrame,
     failed_uploads |-> EmptyDataFrame]

IdleHandler ==
    /\ handler = NewHandler("None", "None")
    /\ csv_uploader = NewCSVUploader
    /\ uploads = <<>>
    /\ upload_run = FALSE
    /\ handler_raised = ""
    /\ n_calls = 0

\* lambda x: x.  A callable is the sequence of the functions it applies,
\* the outermost first: <<f, g>> is lambda x: f(g(x)).
Identity == <<>>

NoOp == [fn |-> "", x |-> <<>>, ret |-> <<>>, raised |-> ""]

IdleTransformer ==
    /\ functions = <<>>
    /\ pipeline = Identity
    /\ last_call = NoOp
    /\ n_ops = 0

IdleRest == IdleIndexer /\ IdleHandler /\ IdleTransformer

IdleLater == IdleSearch /\ IdleRest

InitExpand ==
    /\ pc = "start"
    /\ json_array0 \in Arrays
    /\ json_array = json_array0
    /\ multi_data_att \in MultiSets
    /\ expand_ret = <<>>
    /\ IdleNormalize
    /\ IdleHeaders
    /\ IdleLater

\* The call expand_lists(json_array, multi_data_att): the list the caller
\* passed is the list that is mutated and returned.
CallExpandLists ==
    /\ pc = "start"
    /\ json_array' = expand_lists(json_array, multi_data_att)
    /\ expand_ret' = json_array'
    /\ pc' = "done"
    /\ UNCHANGED <<json_array0, multi_data_att, normalizeVars, headerVars, laterVars>>

NextExpand == CallExpandLists

SpecExpand == InitExpand /\ [][NextExpand]_vars

(***************************************************************************)
(* Properties of expand_lists.                                             *)
(***************************************************************************)
\* The entries <<i, j>> of the input rows.
InputEntries ==
    UNION {{<<i, j>> : j \in 1..Len(json_array0[i])} : i \in 1..Len(json_array0)}

InValue(e) == json_array0[e[1]][e[2]].value

InKey(e) == json_array0[e[1]][e[2]].key

\* <<i, j, s>>: element s + 1 of the declared multi-row attribute j of input
\* row i, a list of at least two elements.
FanOuts ==
    UNION {{<<e[1], e[2], s>> : s \in 1..(Len(InValue(e).items) - 1)} :
              e \in {d \in InputEntries :
                        IsList(InValue(d)) /\ InKey(d) \in multi_data_att}}

\* The original rows keep their entries' keys and positions.
SameShape ==
    /\ Len(expand_ret) >= Len(json_array0)
    /\ \A i \in 1..Len(json_array0) :
          /\ Len(expand_ret[i]) = Len(json_array0[i])
          /\ \A j \in 1..Len(json_array0[i]) :
                expand_ret[i][j].key = json_array0[i][j].key

\* C1: in every original row an empty sequence becomes an empty mapping, a
\* sequence of one element becomes that element, a sequence of two or more
\* elements under an undeclared key becomes an empty mapping and adds no row
\* (the rows added are exactly those of the declared attributes), and a
\* value that is not a sequence is kept.
C1_SequencesResolved ==
    pc = "done" =>
        /\ SameShape
        /\ \A e \in InputEntries :
              LET v == InValue(e)
                  out == expand_ret[e[1]][e[2]].value
              IN  /\ ~IsList(v) => out = v
                  /\ (IsList(v) /\ Len(v.items) = 0) => out = EmptyMapping
                  /\ (IsList(v) /\ Len(v.items) = 1) => out = v.items[1]
                  /\ (IsList(v) /\ Len(v.items) >= 2 /\ InKey(e) \notin multi_data_att)
                        => out = EmptyMapping
        /\ Len(expand_ret) = Len(json_array0) + Cardinality(FanOuts)

\* One call meets all four cases of C1 at once.
C1_Witness ==
    /\ pc = "done"
    /\ \E e \in InputEntries : ~IsList(InValue(e))
    /\ \E e \in InputEntries : IsList(InValue(e)) /\ Len(InValue(e).items) = 0
    /\ \E e \in InputEntries : IsList(InValue(e)) /\ Len(InValue(e).items) = 1
    /\ \E e \in InputEntries :
          /\ IsList(InValue(e)) /\ Len(InValue(e).items) >= 2
          /\ InKey(e) \notin multi_data_att

\* The order in which the loops meet the fan-out elements: by row, then by
\* entry, then by element.
Before(t, u) ==
    \/ t[1] < u[1]
    \/ t[1] = u[1] /\ t[2] < u[2]
    \/ t[1] = u[1] /\ t[2] = u[2] /\ t[3] < u[3]

Rank(t) == 1 + Cardinality({u \in FanOuts : Before(u, t)})

\* C2: the first n rows of the output are the n input rows in their order,
\* sequence values resolved in place (a declared multi-row attribute of two
\* or more elements holds its first element); the rows derived by fan-out,
\* one per remaining element in element order, come after all of them; no
\* row is dropped.
C2_DerivedRowsAppended ==
    pc = "done" =>
        /\ SameShape
        /\ \A e \in InputEntries :
              LET v == InValue(e)
                  out == expand_ret[e[1]][e[2]].value
              IN  out = IF ~IsList(v) THEN v
                        ELSE IF Len(v.items) = 0 THEN EmptyMapping
                        ELSE IF Len(v.items) = 1 THEN v.items[1]
                        ELSE IF InKey(e) \in multi_data_att THEN v.items[1]
                        ELSE EmptyMapping
        /\ Len(expand_ret) = Len(json_array0) + Cardinality(FanOuts)
        /\ \A t \in FanOuts :
              LET derived == expand_ret[Len(json_array0) + Rank(t)]
              IN  /\ Len(derived) = Len(json_array0[t[1]])
                  /\ derived[t[2]].key = InKey(<<t[1], t[2]>>)
                  /\ derived[t[2]].value = InValue(<<t[1], t[2]>>).items[t[3] + 1]

\* The first of two rows fans out: its derived rows could have been put
\* between the two original rows.
C2_Witness ==
    /\ pc = "done"
    /\ Len(json_array0) = 2
    /\ \E t \in FanOuts : t[1] = 1
    /\ Len(expand_ret) > 2

\* C3: (the inputs' sequences hold no sequences) no row of the output,
\* original or derived, holds a sequence as a top-level value.
C3_NoSequenceLeft ==
    pc = "done" =>
        \A r \in 1..Len(expand_ret) :
            \A j \in 1..Len(expand_ret[r]) : ~IsList(expand_ret[r][j].value)

(***************************************************************************)
(* expand_and_normalize                                                    *)
(*                                                                         *)
(* A column name is the sequence of its dot-separated segments: "tags.b"   *)
(* is <<"tags", "b">>.  Keys hold no dot.  A table is its column labels    *)
(* and its rows, each row the sequence of its cells in column order.       *)
(***************************************************************************)
MaxDataRows == 2

Range(f) == {f[i] : i \in DOMAIN f}

\* column.split('.')[0]
FirstSegment(column) == Head(column)

NaN == [present |-> FALSE, value |-> Scalar("")]

Cell(v) == [present |-> TRUE, value |-> v]

\* The attribute values of the rows passed to expand_and_normalize.
NormValues == {Scalar("x"), ListOfLen(0), ListOfLen(MaxListLen)}

NormRows ==
    {<<>>}
    \cup {<<[key |-> k, value |-> v]>> : k \in {"tags", "other"}, v \in NormValues}
    \cup {<<[key |-> "tags", value |-> v], [key |-> "other", value |-> w]>> :
              v \in NormValues, w \in NormValues}

NormData == SeqsUpTo(NormRows, MaxDataRows)

\* The column filters passed: None, or a list of column names.
ColumnFilters ==
    {NoFilter}
    \cup {[given |-> TRUE, cols |-> c] :
            c \in {<<>>,
                   <<<<"tags">>>>,
                   <<<<"tags", "b">>>>,
                   <<<<"z", "missing">>>>,
                   <<<<"tags", "b">>, <<"tags">>>>,
                   <<<<"tags">>, <<"tags", "b">>>>,
                   <<<<"tags", "b">>, <<"z", "missing">>>>,
                   <<<<"other">>, <<"tags">>>>,
                   <<<<"tags">>, <<"other">>, <<"tags">>>>}}

\* The orders in which a Python set of these keys can be iterated.
Orders(S) == {o \in [1..Cardinality(S) -> S] : Range(o) = S}

HasKey(row, key) == \E j \in 1..Len(row) : row[j].key = key

Lookup(row, key) == row[CHOOSE j \in 1..Len(row) : row[j].key = key].value

\* json_utils.py:56-62
JsonKeys(rows, filter) ==
    IF ~filter.given
    THEN UNION {{rows[i][j].key : j \in 1..Len(rows[i])} : i \in 1..Len(rows)}
    ELSE {FirstSegment(filter.cols[k]) : k \in 1..Len(filter.cols)}

\* A variant that keeps every key of json_keys, with a null where the row
\* lacks it.
RECURSIVE ProjectRowFrom_NullFilled(_, _, _)
ProjectRowFrom_NullFilled(row, keyOrder, k) ==
    IF k > Len(keyOrder)
    THEN <<>>
    ELSE <<[key |-> keyOrder[k],
            value |-> IF HasKey(row, keyOrder[k]) THEN Lookup(row, keyOrder[k])
                      ELSE Scalar("")]>>
         \o ProjectRowFrom_NullFilled(row, keyOrder, k + 1)

\* {key: row[key] for key in json_keys if key in row}, json_keys iterated in
\* the order keyOrder.
RECURSIVE ProjectRowFrom(_, _, _)
ProjectRowFrom(row, keyOrder, k) ==
    IF k > Len(keyOrder)
    THEN <<>>
    ELSE (IF HasKey(row, keyOrder[k])
          THEN <<[key |-> keyOrder[k], value |-> Lookup(row, keyOrder[k])]>>
          ELSE <<>>)
         \o ProjectRowFrom(row, keyOrder, k + 1)

\* json_utils.py:68
FilteredData(rows, keyOrder) ==
    [i \in 1..Len(rows) |-> ProjectRowFrom(rows[i], keyOrder, 1)]

\* pd.json_normalize on one row: the values that are not mappings under
\* their key, then the leaves of the mappings under key.subkey.  An empty
\* mapping gives nothing; a list is a cell value like any other.
RECURSIVE TopLevelFrom(_, _)
TopLevelFrom(row, j) ==
    IF j > Len(row)
    THEN <<>>
    ELSE (IF row[j].value.kind # "map"
          THEN <<[col |-> <<row[j].key>>, value |-> row[j].value]>>
          ELSE <<>>)
         \o TopLevelFrom(row, j + 1)

NestedOf(entry) ==
    [f \in 1..Len(entry.value.fields) |->
        [col |-> <<entry.key, entry.value.fields[f].key>>,
         value |-> Scalar(entry.value.fields[f].leaf)]]

RECURSIVE NestedFrom(_, _)
NestedFrom(row, j) ==
    IF j > Len(row)
    THEN <<>>
    ELSE (IF row[j].value.kind = "map" THEN NestedOf(row[j]) ELSE <<>>)
         \o NestedFrom(row, j + 1)

\* A variant in which an empty mapping gives a column of its own.
FlatRow_EmptyMappingKept(row) ==
    LET empties == SelectSeq(row, LAMBDA e : e.value = EmptyMapping)
    IN  TopLevelFrom(row, 1) \o NestedFrom(row, 1)
        \o [k \in 1..Len(empties) |->
               [col |-> <<empties[k].key>>, value |-> empties[k].value]]

FlatRow(row) == TopLevelFrom(row, 1) \o NestedFrom(row, 1)

\* The columns of the frame built from the flat rows: every column of every
\* row, in the order first met.
RECURSIVE AppendNew(_, _, _)
AppendNew(columns, flat, k) ==
    IF k > Len(flat)
    THEN columns
    ELSE AppendNew(IF flat[k].col \in Range(columns)
                   THEN columns
                   ELSE Append(columns, flat[k].col),
                   flat, k + 1)

RECURSIVE UnionColumns(_, _, _)
UnionColumns(columns, flats, i) ==
    IF i > Len(flats)
    THEN columns
    ELSE UnionColumns(AppendNew(columns, flats[i], 1), flats, i + 1)

CellOf(flat, col) ==
    IF \E k \in 1..Len(flat) : flat[k].col = col
    THEN Cell(flat[CHOOSE k \in 1..Len(flat) : flat[k].col = col].value)
    ELSE NaN

\* pd.json_normalize(expanding_data)
json_normalize(rows) ==
    LET flats == [i \in 1..Len(rows) |-> FlatRow(rows[i])]
        columns == UnionColumns(<<>>, flats, 1)
    IN  [columns |-> columns,
         rows |-> [i \in 1..Len(rows) |->
                      [c \in 1..Len(columns) |-> CellOf(flats[i], columns[c])]]]

\* json_utils.py:80 with the roles of the filter and the frame exchanged:
\* the frame's columns that the filter names, in the frame's order.
ExistingColumns_FrameOrder(filter, frame) ==
    SelectSeq(frame.columns, LAMBDA col : col \in Range(filter.cols))

\* json_utils.py:80
ExistingColumns(filter, frame) ==
    SelectSeq(filter.cols, LAMBDA col : col \in Range(frame.columns))

ColumnIndex(frame, col) == CHOOSE c \in 1..Len(frame.columns) : frame.columns[c] = col

\* normalized_df[existing_columns]
SelectColumns(frame, cols) ==
    [raised |-> "",
     columns |-> cols,
     rows |-> [i \in 1..Len(frame.rows) |->
                  [k \in 1..Len(cols) |-> frame.rows[i][ColumnIndex(frame, cols[k])]]]]

\* json_utils.py:79-83.  With column_filter None the comprehension of line
\* 80 iterates None and raises TypeError.
FilterAndReturn(filter, frame) ==
    IF ~filter.given
    THEN [raised |-> "TypeError", columns |-> <<>>, rows |-> <<>>]
    ELSE SelectColumns(frame, ExistingColumns(filter, frame))

InitNormalize ==
    /\ pc = "start"
    /\ data0 \in NormData
    /\ data = data0
    /\ filtered_data = <<>>
    /\ expanding_data = <<>>
    /\ column_filter \in ColumnFilters
    /\ multi_row_data \in {{}, {"tags"}}
    /\ normalized_df = NoTable
    /\ normalize_ret = NoReturn
    /\ IdleExpand
    /\ IdleHeaders
    /\ IdleLater

\* The call expand_and_normalize(data, column_filter, multi_row_data).  The
\* rows of filtered_data are new dicts, so expand_lists, which rewrites that
\* list in place, writes nothing into the caller's rows.
CallExpandAndNormalize ==
    /\ pc = "start"
    /\ \E keyOrder \in Orders(JsonKeys(data, column_filter)) :
          filtered_data' = FilteredData(data, keyOrder)
    /\ expanding_data' = expand_lists(filtered_data', multi_row_data)
    /\ normalized_df' = json_normalize(expanding_data')
    /\ normalize_ret' = FilterAndReturn(column_filter, normalized_df')
    /\ pc' = "done"
    /\ UNCHANGED <<data0, data, column_filter, multi_row_data, expandVars, headerVars,
                   laterVars>>

NextNormalize == CallExpandAndNormalize

SpecNormalize == InitNormalize /\ [][NextNormalize]_vars

(***************************************************************************)
(* Properties of expand_and_normalize.                                     *)
(***************************************************************************)
\* C4: called without a column filter, expand_and_normalize does not fail
\* and returns all the columns of the flattened table.
C4_NoFilterReturnsAll ==
    (pc = "done" /\ ~column_filter.given) =>
        /\ normalize_ret.raised = ""
        /\ Range(normalize_ret.columns) = Range(normalized_df.columns)
        /\ Len(normalize_ret.rows) = Len(normalized_df.rows)

\* The positions of the filter whose column the flattened table has.
Present == {k \in 1..Len(column_filter.cols) :
               \E c \in 1..Len(normalized_df.columns) :
                   normalized_df.columns[c] = column_filter.cols[k]}

\* The n-th member of a set of positions.
Nth(S, n) == CHOOSE k \in S : Cardinality({m \in S : m <= k}) = n

\* C5: with a column filter the call raises nothing; the columns returned
\* are the filter's entries that are columns of the flattened table, one per
\* such entry and in the filter's order, each with the cells it has in the
\* flattened table; an absent entry gives no column, and no other column is
\* returned.
C5_FilterSelectsExisting ==
    (pc = "done" /\ column_filter.given) =>
        /\ normalize_ret.raised = ""
        /\ Len(normalize_ret.columns) = Cardinality(Present)
        /\ \A n \in 1..Cardinality(Present) :
              /\ normalize_ret.columns[n] = column_filter.cols[Nth(Present, n)]
              /\ \E c \in 1..Len(normalized_df.columns) :
                    /\ normalized_df.columns[c] = normalize_ret.columns[n]
                    /\ Len(normalize_ret.rows) = Len(normalized_df.rows)
                    /\ \A i \in 1..Len(normalized_df.rows) :
                          /\ Len(normalize_ret.rows[i]) = Cardinality(Present)
                          /\ normalize_ret.rows[i][n] = normalized_df.rows[i][c]

\* A filter naming a column the table has after one it lacks, on a table
\* that has a further column the filter does not name.
C5_Witness ==
    /\ pc = "done"
    /\ column_filter.given
    /\ Len(column_filter.cols) >= 2
    /\ 1 \notin Present
    /\ 2 \in Present
    /\ \E c \in 1..Len(normalized_df.columns) :
          normalized_df.columns[c] \notin Range(column_filter.cols)
    /\ Len(normalize_ret.rows) >= 2

\* The keys of a row.
Keys(row) == {row[j].key : j \in 1..Len(row)}

\* The first dot-separated segments of the entries of column_filter.
KeepSet == {FirstSegment(column_filter.cols[k]) : k \in 1..Len(column_filter.cols)}

\* C17: with a column filter, the projection builds for each input row a new
\* row holding exactly the entries whose key is the first segment of some
\* filter entry; a key of that set which the row lacks is left out, without
\* a null in its place; the rows keep their number and order and the
\* caller's rows are as they were.
C17_ProjectionKeepsFilterKeys ==
    (pc = "done" /\ column_filter.given) =>
        /\ Len(filtered_data) = Len(data0)
        /\ \A i \in 1..Len(data0) :
              /\ Keys(filtered_data[i]) = Keys(data0[i]) \cap KeepSet
              /\ Len(filtered_data[i]) = Cardinality(Keys(filtered_data[i]))
              /\ \A key \in Keys(filtered_data[i]) :
                    Lookup(filtered_data[i], key) = Lookup(data0[i], key)
        /\ data = data0

\* Two rows; one loses an entry whose key is not asked for, and one lacks a
\* key that is asked for while another has it.
C17_Witness ==
    /\ pc = "done"
    /\ column_filter.given
    /\ Len(data0) > 1
    /\ \E i \in 1..Len(data0) : Keys(data0[i]) \ KeepSet # {}
    /\ \E i, j \in 1..Len(data0), key \in KeepSet :
          /\ key \notin Keys(data0[i])
          /\ key \in Keys(filtered_data[j])

\* The dot-joined paths to the leaves of a row: the key of a value that is
\* not a mapping, and key.subkey for every entry of a mapping.
LeafPaths(row) ==
    {<<row[j].key>> : j \in {k \in 1..Len(row) : row[k].value.kind # "map"}}
    \cup UNION {{<<row[j].key, row[j].value.fields[f].key>> :
                    f \in 1..Len(row[j].value.fields)} :
                j \in {k \in 1..Len(row) : row[k].value.kind = "map"}}

\* The leaf of a row at a path.
Leaf(row, path) ==
    IF Len(path) = 1 THEN Lookup(row, path[1])
    ELSE LET fields == Lookup(row, path[1]).fields
         IN  Scalar(fields[CHOOSE f \in 1..Len(fields) : fields[f].key = path[2]].leaf)

\* C18: the flattened table has one row per expanded row, in the same order;
\* its columns are the union over the rows of the dot-joined paths to their
\* leaves; a row without a column holds a null there; a value that is an
\* empty mapping gives no column.
C18_FlattenedTable ==
    pc = "done" =>
        /\ Len(normalized_df.rows) = Len(expanding_data)
        /\ Range(normalized_df.columns)
              = UNION {LeafPaths(expanding_data[i]) : i \in 1..Len(expanding_data)}
        /\ Cardinality(Range(normalized_df.columns)) = Len(normalized_df.columns)
        /\ \A i \in 1..Len(expanding_data) :
              /\ Len(normalized_df.rows[i]) = Len(normalized_df.columns)
              /\ \A c \in 1..Len(normalized_df.columns) :
                    normalized_df.rows[i][c] =
                        IF normalized_df.columns[c] \in LeafPaths(expanding_data[i])
                        THEN Cell(Leaf(expanding_data[i], normalized_df.columns[c]))
                        ELSE NaN

\* Rows with different leaves, one of them holding an empty mapping; a
\* column of a nested leaf; a null cell.
C18_Witness ==
    /\ pc = "done"
    /\ Len(expanding_data) > 1
    /\ \E i \in 1..Len(expanding_data) :
          \E j \in 1..Len(expanding_data[i]) : expanding_data[i][j].value = EmptyMapping
    /\ \E c \in 1..Len(normalized_df.columns) : Len(normalized_df.columns[c]) > 1
    /\ \E i \in 1..Len(normalized_df.rows), c \in 1..Len(normalized_df.columns) :
          normalized_df.rows[i][c] = NaN

(***************************************************************************)
(* find_headers_to_promote                                                 *)
(*                                                                         *)
(* A frame is its column labels, its row labels and its rows, each row the *)
(* sequence of its cell values.  Cell values and labels are tokens; the    *)
(* integer labels and cells of the source are the tokens "0", "1", "23".   *)
(* A token group is the sequence of its tokens.                            *)
(***************************************************************************)
MaxFrameRows == 3

RECURSIVE AnyOf(_, _)
AnyOf(bools, k) == IF k > Len(bools) THEN FALSE ELSE bools[k] \/ AnyOf(bools, k + 1)

RECURSIVE AllOf(_, _)
AllOf(bools, k) == IF k > Len(bools) THEN TRUE ELSE bools[k] /\ AllOf(bools, k + 1)

\* contains_one_of asking for every search value instead of any.
contains_one_of_All(iterable, search_values) ==
    AllOf([k \in 1..Len(search_values) |-> search_values[k] \in Range(iterable)], 1)

\* transforming_functions.py:116-121
contains_one_of(iterable, search_values) ==
    AnyOf([k \in 1..Len(search_values) |-> search_values[k] \in Range(iterable)], 1)

\* transforming_functions.py:124-128
contains_multiple_of(iterable, groups) ==
    AllOf([g \in 1..Len(groups) |-> contains_one_of(iterable, groups[g])], 1)

\* The first item of sub_iter that is a search key, looking from item k on;
\* sub_iter[0] when there is none.
RECURSIVE FirstMatchFrom(_, _, _)
FirstMatchFrom(sub_iter, search_keys, k) ==
    IF k > Len(sub_iter)
    THEN sub_iter[1]
    ELSE IF sub_iter[k] \in search_keys
    THEN sub_iter[k]
    ELSE FirstMatchFrom(sub_iter, search_keys, k + 1)

\* first_matching without the search: the first item of every sub-iterable.
first_matching_Heads(search_space, search_keys) ==
    [c \in 1..Len(search_space) |-> search_space[c][1]]

\* first_matching falling back to the last item of the sub-iterable.
first_matching_LastFallback(search_space, search_keys) ==
    [c \in 1..Len(search_space) |->
        IF \E k \in 1..Len(search_space[c]) : search_space[c][k] \in search_keys
        THEN FirstMatchFrom(search_space[c], search_keys, 1)
        ELSE search_space[c][Len(search_space[c])]]

\* misc.py:9-26
first_matching(search_space, search_keys) ==
    [c \in 1..Len(search_space) |-> FirstMatchFrom(search_space[c], search_keys, 1)]

\* df[is_header_row].values.tolist(): the rows the mask keeps, from row i on.
RECURSIVE MaskedFrom(_, _, _)
MaskedFrom(rows, mask, i) ==
    IF i > Len(rows)
    THEN <<>>
    ELSE (IF mask[i] THEN <<rows[i]>> ELSE <<>>) \o MaskedFrom(rows, mask, i + 1)

MinLen(rows) ==
    CHOOSE n \in {Len(rows[r]) : r \in 1..Len(rows)} :
        \A r \in 1..Len(rows) : n <= Len(rows[r])

\* list(zip(*rows)): one tuple per column position.
Zip(rows) ==
    IF rows = <<>>
    THEN <<>>
    ELSE [c \in 1..MinLen(rows) |-> [r \in 1..Len(rows) |-> rows[r][c]]]

\* set(itertools.chain.from_iterable(search_values_multiple))
AllHeaders(groups) == UNION {Range(groups[g]) : g \in 1..Len(groups)}

\* transforming_functions.py:103
HeaderMask(frame, groups) ==
    [i \in 1..Len(frame.rows) |-> contains_multiple_of(frame.rows[i], groups)]

\* transforming_functions.py:104-106
RowsWithHeaders(frame, groups, check) ==
    (IF check /\ contains_multiple_of(frame.columns, groups)
     THEN <<frame.columns>>
     ELSE <<>>)
    \o MaskedFrom(frame.rows, HeaderMask(frame, groups), 1)

\* transforming_functions.py:103-113.  MultiIndex.from_tuples raises
\* TypeError on an empty list of tuples, before df.columns is assigned.
find_headers_to_promote(frame, groups, check) ==
    LET tuples == Zip(RowsWithHeaders(frame, groups, check))
    IN  IF tuples = <<>>
        THEN [raised |-> "TypeError", table |-> frame]
        ELSE [raised |-> "",
              table |-> [frame EXCEPT
                            !.columns = first_matching(tuples, AllHeaders(groups))]]

\* The table and the groups of main() (transforming_functions.py:435-436).
MainRows ==
    << <<"y4", "rs", "st">>,
       <<"1", "23", "6">>,
       <<"st", "straw", "hgf">>,
       <<"stanine", "RawScore", "rsdfs">>,
       <<"stanine", "rs", "rsdfs">> >>

MainFrame ==
    [columns |-> <<"0", "1", "2">>, index |-> <<0, 1, 2, 3, 4>>, rows |-> MainRows]

MainGroups == << <<"st", "stanine">>, <<"rs", "RawScore">> >>

\* The tables passed: three columns, one to MaxFrameRows rows, the labels the
\* default ones or labels read from a file; and the table of main().
FrameRows ==
    {<<a, b, c>> : a \in {"st", "hgf"}, b \in {"RawScore", "hgf"}, c \in {"x1", "st"}}

Frames ==
    {MainFrame}
    \cup {[columns |-> cols, index |-> [i \in 1..Len(rows) |-> i - 1], rows |-> rows] :
            cols \in {<<"0", "1", "2">>, <<"st", "rs", "x1">>, <<"x1", "hgf", "rs">>},
            rows \in SeqsUpTo(FrameRows, MaxFrameRows) \ {<<>>}}

GroupSeqs ==
    {MainGroups, << <<"hgf">> >>, << <<"st", "hgf">>, <<"RawScore">> >>}

InitHeaders ==
    /\ pc = "start"
    /\ df0 \in Frames
    /\ df = df0
    /\ search_values_multiple \in GroupSeqs
    /\ check_header \in BOOLEAN
    /\ is_header_row = <<>>
    /\ promote_ret = [raised |-> "", table |-> NoFrame]
    /\ IdleExpand
    /\ IdleNormalize
    /\ IdleLater

\* The call find_headers_to_promote(df, search_values_multiple,
\* check_header): the frame returned is the caller's frame, relabelled.
CallFindHeadersToPromote ==
    /\ pc = "start"
    /\ is_header_row' = HeaderMask(df, search_values_multiple)
    /\ promote_ret' = find_headers_to_promote(df, search_values_multiple, check_header)
    /\ df' = promote_ret'.table
    /\ pc' = "done"
    /\ UNCHANGED <<df0, search_values_multiple, check_header, expandVars, normalizeVars, laterVars>>

NextHeaders == CallFindHeadersToPromote

SpecHeaders == InitHeaders /\ [][NextHeaders]_vars

(***************************************************************************)
(* Properties of find_headers_to_promote.                                  *)
(***************************************************************************)
\* Row i of the table passed satisfies every group: it holds a token of
\* every group.
Matches(values) ==
    \A g \in 1..Len(search_values_multiple) :
        Range(search_values_multiple[g]) \cap Range(values) # {}

MatchedRows == {i \in 1..Len(df0.rows) : Matches(df0.rows[i])}

HeaderCounts == check_header /\ Matches(df0.columns)

\* The rows of the table passed that do not match, in their order.
RECURSIVE UnmatchedFrom(_)
UnmatchedFrom(i) ==
    IF i > Len(df0.rows)
    THEN <<>>
    ELSE (IF i \in MatchedRows THEN <<>> ELSE <<df0.rows[i]>>) \o UnmatchedFrom(i + 1)

\* C6: the data rows of the table returned are the rows of the table passed
\* that do not match the group sequence, in their order.
C6_MatchedRowsRemoved ==
    (pc = "done" /\ promote_ret.raised = "") =>
        promote_ret.table.rows = UnmatchedFrom(1)

\* C7: when no row matches (and the header is not counted as a match) the
\* call raises nothing and returns the table passed, labels and rows.
C7_NoMatchUnchanged ==
    (pc = "done" /\ MatchedRows = {} /\ ~HeaderCounts) =>
        /\ promote_ret.raised = ""
        /\ promote_ret.table = df0

IsMain == df0 = MainFrame /\ search_values_multiple = MainGroups

\* C8 as stated: on the table of main() exactly R3 and R4 are matched and
\* the labels are stanine, RawScore, rsdfs.
C8_MainExampleAsStated ==
    (pc = "done" /\ IsMain) =>
        /\ is_header_row = <<FALSE, FALSE, FALSE, TRUE, TRUE>>
        /\ promote_ret.table.columns = <<"stanine", "RawScore", "rsdfs">>

\* C8, amended: on the table of main() exactly R0, R3 and R4 are matched (R0
\* holds st and rs) and the labels are stanine, rs, st.
C8_MainExample ==
    (pc = "done" /\ IsMain) =>
        /\ is_header_row = <<TRUE, FALSE, FALSE, TRUE, TRUE>>
        /\ promote_ret.raised = ""
        /\ promote_ret.table.columns = <<"stanine", "rs", "st">>

C8_Witness == pc = "done" /\ IsMain /\ promote_ret.raised = ""

\* The matched rows in top-to-bottom order, the header first when it counts.
NthMatched(n) == Nth(MatchedRows, n)

ColumnTuple(c) ==
    (IF HeaderCounts THEN <<df0.columns[c]>> ELSE <<>>)
    \o [n \in 1..Cardinality(MatchedRows) |-> df0.rows[NthMatched(n)][c]]

\* C9: the label of a column is the first value, among the column's values
\* in the matched rows from top to bottom, that is a token of some group;
\* when none is, it is the first of those values.
C9_LabelIsFirstGroupToken ==
    (pc = "done" /\ promote_ret.raised = "") =>
        /\ Len(promote_ret.table.columns) = Len(df0.columns)
        /\ \A c \in 1..Len(df0.columns) :
              LET tuple == ColumnTuple(c)
                  hits == {k \in 1..Len(tuple) :
                              \E g \in 1..Len(search_values_multiple) :
                                  tuple[k] \in Range(search_values_multiple[g])}
              IN  promote_ret.table.columns[c] =
                      IF hits = {}
                      THEN tuple[1]
                      ELSE tuple[CHOOSE k \in hits : \A m \in hits : k <= m]

\* Two or more rows matched; one column resolved by a group token that is
\* not its first value, another by the fall-back.
C9_Witness ==
    /\ pc = "done"
    /\ promote_ret.raised = ""
    /\ Cardinality(MatchedRows) >= 2
    /\ \E c \in 1..Len(df0.columns) :
          /\ ColumnTuple(c)[1] \notin AllHeaders(search_values_multiple)
          /\ promote_ret.table.columns[c] \in AllHeaders(search_values_multiple)
    /\ \E c \in 1..Len(df0.columns) :
          promote_ret.table.columns[c] \notin AllHeaders(search_values_multiple)

\* C10: contains_one_of holds exactly when some value is a member of the
\* group, contains_multiple_of exactly when that is so for every group, and
\* a row is classified as a header row exactly when contains_multiple_of
\* holds of its cell values.
C10_AndAcrossOrWithin ==
    pc = "done" =>
        /\ Len(is_header_row) = Len(df0.rows)
        /\ \A i \in 1..Len(df0.rows) :
              /\ is_header_row[i] = Matches(df0.rows[i])
              /\ contains_multiple_of(df0.rows[i], search_values_multiple)
                    = Matches(df0.rows[i])
              /\ \A g \in 1..Len(search_values_multiple) :
                    contains_one_of(df0.rows[i], search_values_multiple[g])
                        = (\E c \in 1..Len(df0.rows[i]) :
                              df0.rows[i][c] \in Range(search_values_multiple[g]))

\* A row that matches, and a row that holds a token of one group of two but
\* none of the other.
C10_Witness ==
    /\ pc = "done"
    /\ Len(search_values_multiple) = 2
    /\ \E i \in 1..Len(df0.rows) : is_header_row[i]
    /\ \E i \in 1..Len(df0.rows) :
          /\ ~is_header_row[i]
          /\ contains_one_of(df0.rows[i], search_values_multiple[1])
          /\ ~contains_one_of(df0.rows[i], search_values_multiple[2])

(***************************************************************************)
(* Locating a header row and promoting it:                                 *)
(* transforming/transforming_functions.py, remove_top_n,                   *)
(* remove_rows_on_value, promote_nth_row_to_headers, search_in_rows,       *)
(* search_to_promote and search_to_promote_multi.                          *)
(*                                                                         *)
(* A table keeps its row labels (index) when rows are sliced away, so a    *)
(* table that an earlier call returned may carry labels that do not start  *)
(* at 0 or are not contiguous.  Positions are counted from 0 as in the     *)
(* source; the row at position n is rows[n + 1].                           *)
(***************************************************************************)
MaxSearchRows == 3

\* A null cell.
NullCell == "NaN"

SearchRows ==
    {<<a, b>> : a \in {"st", "rs"}, b \in {"rs", "st", NullCell}}

\* Tables as they are first built: row labels 0..n-1.
SearchFrames ==
    {[columns |-> cols, index |-> [p \in 1..Len(rows) |-> p - 1], rows |-> rows] :
        cols \in {<<"0", "1">>, <<"st", "rs">>},
        rows \in SeqsUpTo(SearchRows, MaxSearchRows)}

SearchValues == {<<"st">>, <<"rs", "st">>, <<"x1">>}

SearchGroups ==
    {<< <<"rs", "st">>, <<"st">> >>,
     << <<"st">>, <<"rs", "st">> >>,
     << <<"x1">>, <<"st">> >>}

First(S) == CHOOSE p \in S : \A q \in S : p <= q

Last(S) == CHOOSE p \in S : \A q \in S : q <= p

\* df.iloc[n:]
remove_top_n(frame, n) ==
    [columns |-> frame.columns,
     index |-> SubSeq(frame.index, n + 1, Len(frame.index)),
     rows |-> SubSeq(frame.rows, n + 1, Len(frame.rows))]

RECURSIVE KeepFrom(_, _, _)
\* The positions, in order, at or after p whose row is kept.
KeepFrom(keep, p, n) ==
    IF p > n THEN <<>>
    ELSE (IF keep[p] THEN <<p>> ELSE <<>>) \o KeepFrom(keep, p + 1, n)

\* str(cell): a null cell reads "nan".
Str(cell) == IF cell = NullCell THEN "nan" ELSE cell

\* df[~df[column_header].apply(str).str.strip().isin(values_set)] for the
\* one column header passed; the header is a label of the table.
remove_rows_on_value(frame, column_header, values) ==
    LET c == CHOOSE k \in 1..Len(frame.columns) : frame.columns[k] = column_header
        keep == [p \in 1..Len(frame.rows) |-> Str(frame.rows[p][c]) \notin Range(values)]
        kept == KeepFrom(keep, 1, Len(frame.rows))
    IN  [columns |-> frame.columns,
         index |-> [k \in 1..Len(kept) |-> frame.index[kept[k]]],
         rows |-> [k \in 1..Len(kept) |-> frame.rows[kept[k]]]]

\* A variant that leaves null cells as they are.
fillna_Nothing(row, value) == row

\* Series.fillna(value)
fillna(row, value) ==
    [c \in 1..Len(row) |-> IF row[c] = NullCell THEN value ELSE row[c]]

\* new_header = df.iloc[n].fillna('col'); df = df[n + 1:];
\* df.columns = new_header.  iloc and the slice count positions; iloc raises
\* IndexError past the last row.  The slice is a new table: the columns are
\* set on it, not on the table passed.
promote_nth_row_to_headers(frame, n) ==
    IF n >= Len(frame.rows)
    THEN [raised |-> "IndexError", table |-> NoFrame]
    ELSE [raised |-> "",
          table |-> [columns |-> fillna(frame.rows[n + 1], "col"),
                     index |-> SubSeq(frame.index, n + 2, Len(frame.index)),
                     rows |-> SubSeq(frame.rows, n + 2, Len(frame.rows))]]

\* The positions (from 1) of the rows that hold every value.
Hits(frame, values) ==
    {p \in 1..Len(frame.rows) : Range(values) \subseteq Range(frame.rows[p])}

\* A variant that returns the label of the last row that holds every value.
search_in_rows_Last(frame, values) ==
    IF Hits(frame, values) = {} THEN None
    ELSE [found |-> TRUE, label |-> frame.index[Last(Hits(frame, values))]]

\* is_subset.idxmax() if is_subset.any() else None: idxmax gives the row
\* label of the first True.  A table without rows gives an empty mask.
search_in_rows(frame, values) ==
    IF Hits(frame, values) = {} THEN None
    ELSE [found |-> TRUE, label |-> frame.index[First(Hits(frame, values))]]

\* The label search_in_rows returned is passed on as a position.
search_to_promote(frame, values, check) ==
    IF check /\ Range(values) \subseteq Range(frame.columns)
    THEN [raised |-> "", table |-> frame]
    ELSE LET i == search_in_rows(frame, values)
         IN  IF ~i.found THEN [raised |-> "", table |-> frame]
             ELSE promote_nth_row_to_headers(frame, i.label)

\* DataFrame.equals: same labels and same cells, nulls at the same place
\* being equal.
equals(a, b) ==
    /\ a.columns = b.columns
    /\ a.index = b.index
    /\ a.rows = b.rows

RECURSIVE MultiFrom(_, _, _, _)
\* The loop of search_to_promote_multi from group g on; an exception of
\* search_to_promote leaves the loop.
MultiFrom(frame, groups, g, check) ==
    IF g > Len(groups) THEN [raised |-> "", table |-> frame]
    ELSE LET r == search_to_promote(frame, groups[g], check)
         IN  IF r.raised # "" THEN r
             ELSE IF \/ ~equals(frame, r.table)
                     \/ Range(groups[g]) \subseteq Range(frame.columns)
                  THEN r
                  ELSE MultiFrom(frame, groups, g + 1, check)

Reverse(seq) == [k \in 1..Len(seq) |-> seq[Len(seq) + 1 - k]]

\* A variant that tries the groups from the last to the first.
search_to_promote_multi_Backwards(frame, groups, check) ==
    MultiFrom(frame, Reverse(groups), 1, check)

search_to_promote_multi(frame, groups, check) ==
    MultiFrom(frame, groups, 1, check)

InitSearch ==
    /\ pc = "start"
    /\ table0 \in SearchFrames
    /\ table = table0
    /\ call = NoCall
    /\ located = None
    /\ new_df = [raised |-> "", table |-> NoFrame]
    /\ IdleExpand
    /\ IdleNormalize
    /\ IdleHeaders
    /\ IdleRest

Prepared(t) ==
    /\ pc = "start"
    /\ table' = t
    /\ pc' = "prepared"
    /\ UNCHANGED <<table0, call, located, new_df, expandVars, normalizeVars, headerVars, restVars>>

\* An earlier step of the caller: table = remove_top_n(table, n)
CallRemoveTopN ==
    \E n \in 1..Len(table.rows) : Prepared(remove_top_n(table, n))

\* An earlier step of the caller:
\* table = remove_rows_on_value(table, [first label], ['rs'])
CallRemoveRowsOnValue ==
    /\ Len(table.rows) > 0
    /\ Prepared(remove_rows_on_value(table, table.columns[1], <<"rs">>))

\* An earlier step of the caller: table = search_to_promote(table, values)
\* where a row is promoted.
CallEarlierPromotion ==
    \E values \in SearchValues :
        LET r == search_to_promote(table, values, FALSE)
        IN  /\ r.raised = ""
            /\ ~equals(r.table, table)
            /\ Prepared(r.table)

Called(c) ==
    /\ pc \in {"start", "prepared"}
    /\ call' = c
    /\ pc' = "done"
    /\ UNCHANGED <<table0, table, expandVars, normalizeVars, headerVars, restVars>>

CallSearchInRows ==
    \E values \in SearchValues :
        /\ Called([NoCall EXCEPT !.fn = "search_in_rows", !.values = values])
        /\ located' = search_in_rows(table, values)
        /\ UNCHANGED new_df

CallPromoteNthRowToHeaders ==
    \E n \in 0..MaxSearchRows :
        /\ Called([NoCall EXCEPT !.fn = "promote_nth_row_to_headers", !.n = n])
        /\ new_df' = promote_nth_row_to_headers(table, n)
        /\ UNCHANGED located

CallSearchToPromote ==
    \E values \in SearchValues, check \in BOOLEAN :
        /\ Called([NoCall EXCEPT !.fn = "search_to_promote",
                                 !.values = values, !.check = check])
        /\ new_df' = search_to_promote(table, values, check)
        /\ UNCHANGED located

CallSearchToPromoteMulti ==
    \E groups \in SearchGroups, check \in BOOLEAN :
        /\ Called([NoCall EXCEPT !.fn = "search_to_promote_multi",
                                 !.groups = groups, !.check = check])
        /\ new_df' = search_to_promote_multi(table, groups, check)
        /\ UNCHANGED located

NextSearch ==
    \/ CallRemoveTopN
    \/ CallRemoveRowsOnValue
    \/ CallEarlierPromotion
    \/ CallSearchInRows
    \/ CallPromoteNthRowToHeaders
    \/ CallSearchToPromote
    \/ CallSearchToPromoteMulti

SpecSearch == InitSearch /\ [][NextSearch]_vars

(***************************************************************************)
(* Properties of the row search and the promotions.                        *)
(***************************************************************************)
Did(fn) == pc = "done" /\ call.fn = fn

\* The labels of the rows of the table that hold every value of the call.
HitLabels == {table.index[p] : p \in Hits(table, call.values)}

C12_RowNBecomesLabels ==
    (Did("promote_nth_row_to_headers") /\ call.n < Len(table.rows)) =>
        /\ new_df.raised = ""
        /\ Len(new_df.table.columns) = Len(table.rows[call.n + 1])
        /\ \A c \in 1..Len(new_df.table.columns) :
              new_df.table.columns[c] =
                  IF table.rows[call.n + 1][c] = NullCell THEN "col"
                  ELSE table.rows[call.n + 1][c]
        /\ Len(new_df.table.rows) = Len(table.rows) - (call.n + 1)
        /\ \A k \in 1..Len(new_df.table.rows) :
              new_df.table.rows[k] = table.rows[call.n + 1 + k]

\* A row below the first, holding a null cell, is promoted and rows remain.
C12_Witness ==
    /\ Did("promote_nth_row_to_headers")
    /\ call.n > 0
    /\ call.n < Len(table.rows)
    /\ \E c \in 1..Len(table.rows[call.n + 1]) : table.rows[call.n + 1][c] = NullCell
    /\ new_df.raised = ""
    /\ new_df.table.rows # <<>>

\* The call returned the table it was passed.
ReturnedUnchanged == new_df = [raised |-> "", table |-> table]

\* The call returned the table with the row at position p (from 1) promoted.
ReturnedPromoted(p) ==
    /\ new_df.raised = ""
    /\ new_df.table.columns = fillna(table.rows[p], "col")
    /\ new_df.table.rows = SubSeq(table.rows, p + 1, Len(table.rows))

InHeader(values) == Range(values) \subseteq Range(table.columns)

\* C13: search_to_promote returns the table unchanged when check_header is
\* set and every required value is among the column labels, even if a row
\* holds them all; otherwise it promotes the first row that holds them all,
\* and returns the table unchanged when no row does.
C13_HeaderCheckThenFirstRow ==
    Did("search_to_promote") =>
        IF call.check /\ InHeader(call.values) THEN ReturnedUnchanged
        ELSE IF Hits(table, call.values) = {} THEN ReturnedUnchanged
        ELSE ReturnedPromoted(First(Hits(table, call.values)))

\* Group g of the call applies: search_to_promote promotes a row for it, or
\* its tokens are all among the column labels.
Applies(g) ==
    \/ InHeader(call.groups[g])
    \/ Hits(table, call.groups[g]) # {}

Applying == {g \in 1..Len(call.groups) : Applies(g)}

\* C14: search_to_promote_multi returns what search_to_promote gives for the
\* first group, in the order given, whose application changes the table or
\* whose tokens are all among the column labels; a later group is not
\* applied when an earlier one applies, even if its row is higher in the
\* table; when no group applies the table is returned unchanged.
C14_FirstApplyingGroup ==
    Did("search_to_promote_multi") =>
        IF Applying = {} THEN ReturnedUnchanged
        ELSE new_df = search_to_promote(table, call.groups[First(Applying)], call.check)

\* Two groups apply, the later one to a row higher in the table, and the
\* row of the earlier one is promoted.
C14_Witness ==
    /\ Did("search_to_promote_multi")
    /\ Cardinality(Applying) > 1
    /\ ~InHeader(call.groups[1])
    /\ Hits(table, call.groups[1]) # {}
    /\ Hits(table, call.groups[2]) # {}
    /\ First(Hits(table, call.groups[2])) < First(Hits(table, call.groups[1]))
    /\ ReturnedPromoted(First(Hits(table, call.groups[1])))

\* The row labels of the table do not start at 0 or are not contiguous.
Relabelled == \E p \in 1..Len(table.index) : table.index[p] # p - 1

\* C20: on a table that an earlier promotion or row removal returned,
\* search_to_promote promotes the row that matched: the column labels are the
\* cells of the first row holding every required value and the rows are the
\* rows after it.
C20_PromotesMatchedRow ==
    (/\ Did("search_to_promote")
     /\ Relabelled
     /\ ~(call.check /\ InHeader(call.values))
     /\ Hits(table, call.values) # {}) =>
        ReturnedPromoted(First(Hits(table, call.values)))

(***************************************************************************)
(* utils/json_utils.py, json_indexer.                                      *)
(*                                                                         *)
(* A document is a set of numbered nodes; a node is a dict (keys, and the  *)
(* node of each key's value), a list (the nodes of its items), a string    *)
(* (its characters) or a number.  A value reached by the walk is a node of *)
(* the document (ref) or, when a string was indexed, a new one-character   *)
(* string (char).                                                          *)
(***************************************************************************)
MaxIndexLen == 3

Node(kind, keys, kids, chars) ==
    [kind |-> kind, keys |-> keys, kids |-> kids, chars |-> chars]

DictNode(keys, kids) == Node("dict", keys, kids, <<>>)

ListNode(kids) == Node("list", <<>>, kids, <<>>)

StrNode(chars) == Node("str", <<>>, <<>>, chars)

NumNode == Node("num", <<>>, <<>>, <<>>)

\* {'a': 'xy', 'b': [5, {'a': 7}]}
NestedDocument ==
    [root |-> 1,
     nodes |-> <<DictNode(<<"a", "b">>, <<2, 3>>), StrNode(<<"x", "y">>),
                 ListNode(<<4, 5>>), NumNode, DictNode(<<"a">>, <<6>>), NumNode>>]

\* [{'b': 'x'}, 'yz']
ListDocument ==
    [root |-> 1,
     nodes |-> <<ListNode(<<2, 3>>), DictNode(<<"b">>, <<4>>),
                 StrNode(<<"y", "z">>), StrNode(<<"x">>)>>]

\* {'b': [], 'a': {}}
EmptiesDocument ==
    [root |-> 1,
     nodes |-> <<DictNode(<<"b", "a">>, <<2, 3>>), ListNode(<<>>), DictNode(<<>>, <<>>)>>]

Documents == {NestedDocument, ListDocument, EmptiesDocument}

\* One element of the index tuple: a string key or an integer position.
Key(name) == [isKey |-> TRUE, name |-> name, pos |-> 0]

Pos(n) == [isKey |-> FALSE, name |-> "", pos |-> n]

IndexKeys == {Key("a"), Key("b")} \cup {Pos(n) : n \in 0..MaxListLen}

Indexes == SeqsUpTo(IndexKeys, MaxIndexLen)

Raise(error) == [NoValue EXCEPT !.raised = error]

Ref(id) == [NoValue EXCEPT !.ref = id]

Char(c) == [NoValue EXCEPT !.char = c]

\* items[key] for the items of a list or the characters of a string.
SeqItem(items, key) ==
    IF key.isKey THEN Raise("TypeError")
    ELSE IF key.pos >= Len(items) THEN Raise("IndexError")
    ELSE items[key.pos + 1]

\* json_data[key], by the type of the value json_data is bound to.
GetItem(doc, cur, key) ==
    IF cur.ref = 0
    THEN SeqItem(<<Char(cur.char)>>, key)
    ELSE LET node == doc.nodes[cur.ref]
         IN  CASE node.kind = "dict" ->
                    IF key.isKey /\ key.name \in Range(node.keys)
                    THEN Ref(node.kids[CHOOSE k \in 1..Len(node.keys) :
                                            node.keys[k] = key.name])
                    ELSE Raise("KeyError")
               [] node.kind = "list" ->
                    SeqItem([k \in 1..Len(node.kids) |-> Ref(node.kids[k])], key)
               [] node.kind = "str" ->
                    SeqItem([k \in 1..Len(node.chars) |-> Char(node.chars[k])], key)
               [] OTHER -> Raise("TypeError")

RECURSIVE WalkFrom(_, _, _, _)
\* for key in index: json_data = json_data[key]; return json_data
WalkFrom(doc, cur, index, k) ==
    IF k > Len(index) THEN cur
    ELSE LET next == GetItem(doc, cur, index[k])
         IN  IF next.raised # "" THEN next
             ELSE WalkFrom(doc, next, index, k + 1)

json_indexer(doc, index) == WalkFrom(doc, Ref(doc.root), index, 1)

InitIndexer ==
    /\ pc = "start"
    /\ json_data \in Documents
    /\ index_keys \in Indexes
    /\ indexer_ret = NoValue
    /\ IdleExpand
    /\ IdleNormalize
    /\ IdleHeaders
    /\ IdleSearch
    /\ IdleHandler
    /\ IdleTransformer

\* The call json_indexer(json_data, index_keys): the function rebinds its
\* own name only, the caller's document is not written.
CallJsonIndexer ==
    /\ pc = "start"
    /\ indexer_ret' = json_indexer(json_data, index_keys)
    /\ pc' = "done"
    /\ UNCHANGED <<json_data, index_keys, expandVars, normalizeVars, headerVars, searchVars,
                   handlerVars, transformerVars>>

NextIndexer == CallJsonIndexer

SpecIndexer == InitIndexer /\ [][NextIndexer]_vars

(***************************************************************************)
(* Properties of json_indexer.                                             *)
(***************************************************************************)
\* The node that key leads to from a mapping or a sequence node, 0 if none.
Child(node, key) ==
    IF node.kind = "dict" /\ key.isKey /\ key.name \in Range(node.keys)
    THEN node.kids[CHOOSE k \in 1..Len(node.keys) : node.keys[k] = key.name]
    ELSE IF node.kind = "list" /\ ~key.isKey /\ key.pos < Len(node.kids)
    THEN node.kids[key.pos + 1]
    ELSE 0

RECURSIVE Reached(_)
\* The node reached by the first k elements of the path, 0 if none.
Reached(k) ==
    IF k = 0 THEN json_data.root
    ELSE IF Reached(k - 1) = 0 THEN 0
    ELSE Child(json_data.nodes[Reached(k - 1)], index_keys[k])

\* With elements of the path remaining after the first k, the value reached
\* is a mapping without the next key, a sequence shorter than the next
\* position, or a scalar.
StuckAt(k) ==
    /\ Reached(k) # 0
    /\ LET node == json_data.nodes[Reached(k)]
           key == index_keys[k + 1]
       IN  \/ node.kind = "dict" /\ key.isKey /\ key.name \notin Range(node.keys)
           \/ node.kind = "list" /\ ~key.isKey /\ key.pos >= Len(node.kids)
           \/ node.kind \in {"str", "num"}

\* C15: json_indexer fails with an error whenever a key is absent from a
\* mapping, a position is out of range of a sequence, or the value reached
\* is a scalar (a string indexed by a position included) while elements of
\* the path remain; it returns no value then.
C15_FailsOffThePath ==
    (pc = "done" /\ \E k \in 0..(Len(index_keys) - 1) : StuckAt(k)) =>
        indexer_ret.raised # ""

(***************************************************************************)
(* The caller's arguments after expand_lists and find_headers_to_promote.  *)
(***************************************************************************)
InitArguments == InitExpand \/ InitHeaders

NextArguments == CallExpandLists \/ CallFindHeadersToPromote

SpecArguments == InitArguments /\ [][NextArguments]_vars

\* C16: the calls treat their inputs as read-only: after expand_lists the
\* caller's rows sequence and each of its rows are as they were (same
\* length, same values), and after find_headers_to_promote the caller's
\* table has the column labels it had.
C16_InputsReadOnly ==
    pc = "done" =>
        /\ json_array = json_array0
        /\ df.columns = df0.columns

(***************************************************************************)
(* handlers.py, DataHandler, with a CSVUploader (uploading/uploaders.py).  *)
(*                                                                         *)
(* The calls work on the handler object, the uploader object and the log   *)
(* of what was handed to the uploader; World gathers them.  A transformer  *)
(* or an uploader is named by a token, "None" when there is none.          *)
(***************************************************************************)
MaxCalls == 4

\* The tables a source returns from import_data.
ImportedFrames == {EmptyDataFrame, <<"r1">>, <<"r1", "r2">>}

\* Transformer() and Transformer(lambda df: df.head(1)).
Transformers == {"identity", "head"}

\* Transformer.transform(df)
transform(transformer, frame) ==
    IF transformer = "identity" THEN frame
    ELSE SubSeq(frame, 1, IF Len(frame) > 0 THEN 1 ELSE 0)

World ==
    [h |-> handler, u |-> csv_uploader, log |-> uploads, run |-> upload_run,
     raised |-> ""]

\* CSVUploader.upload_data(df): to_csv rewrites the file, the table is
\* added to _successful_uploads.
upload(w, frame, by) ==
    [w EXCEPT !.u.file = frame,
              !.u.successful_uploads = w.u.successful_uploads \o frame,
              !.log = Append(w.log, [by |-> by, df |-> frame, rerun |-> w.run]),
              !.run = TRUE]

\* DataHandler.transform_data(transformer)
transform_data(w, transformer) ==
    LET set == IF transformer # "None"
               THEN [w EXCEPT !.h.transformer = transformer]
               ELSE w
    IN  IF set.h.transformer = "None"
        THEN [set EXCEPT !.raised = "AttributeError"]
        ELSE [set EXCEPT
                 !.h.transformed_data = transform(set.h.transformer, set.h.imported_data),
                 !.run = FALSE]

\* DataHandler.upload_data(uploader), called by the caller or by export_data
upload_data(w, uploader, by) ==
    LET set == IF uploader # "None"
               THEN [w EXCEPT !.h.uploader = uploader]
               ELSE w
    IN  IF set.h.uploader = "None"
        THEN [set EXCEPT !.raised = "AttributeError"]
        ELSE upload(set, set.h.transformed_data, by)

\* DataFrame.empty
Empty(frame) == Len(frame) = 0

\* DataHandler.export_data(uploader)
export_data(w, uploader) ==
    LET transformed == IF Empty(w.h.transformed_data)
                       THEN transform_data(w, "None")
                       ELSE w
        uploaded == upload_data(transformed, uploader, "export_data")
    IN  IF transformed.raised # "" THEN transformed
        ELSE IF uploaded.raised # "" THEN uploaded
        ELSE [uploaded EXCEPT !.h.exported_data = uploaded.u.successful_uploads,
                              !.h.failed_exports = uploaded.u.failed_uploads]

InitHandler ==
    /\ pc = "start"
    /\ \E transformer \in Transformers \cup {"None"}, uploader \in {"csv", "None"} :
          handler = NewHandler(transformer, uploader)
    /\ csv_uploader = NewCSVUploader
    /\ uploads = <<>>
    /\ upload_run = FALSE
    /\ handler_raised = ""
    /\ n_calls = 0
    /\ IdleExpand
    /\ IdleNormalize
    /\ IdleHeaders
    /\ IdleSearch
    /\ IdleIndexer
    /\ IdleTransformer

\* One call on the handler leaves the world w.
HandlerCall(w) ==
    /\ n_calls < MaxCalls
    /\ n_calls' = n_calls + 1
    /\ handler' = w.h
    /\ csv_uploader' = w.u
    /\ uploads' = w.log
    /\ upload_run' = w.run
    /\ handler_raised' = w.raised
    /\ UNCHANGED <<pc, expandVars, normalizeVars, headerVars, searchVars, indexerVars,
                   transformerVars>>

\* DataHandler.import_data(): the source returns a table.
CallImportData ==
    \E frame \in ImportedFrames :
        HandlerCall([World EXCEPT !.h.imported_data = frame])

CallTransformData ==
    \E transformer \in Transformers \cup {"None"} :
        HandlerCall(transform_data(World, transformer))

CallUploadData ==
    \E uploader \in {"csv", "None"} :
        HandlerCall(upload_data(World, uploader, "upload_data"))

CallExportData ==
    \E uploader \in {"csv", "None"} :
        HandlerCall(export_data(World, uploader))

NextHandler ==
    \/ CallImportData
    \/ CallTransformData
    \/ CallUploadData
    \/ CallExportData

SpecHandler == InitHandler /\ [][NextHandler]_vars

(***************************************************************************)
(* Properties of DataHandler.                                              *)
(***************************************************************************)
\* C19: export_data runs transform_data and upload_data only if they have
\* not been run yet: whatever calls of transform_data, upload_data and
\* export_data came before, export_data does not hand to the uploader a
\* transformed table that upload_data was already run on.
C19_ExportUploadsOnce ==
    \A k \in 1..Len(uploads) :
        uploads[k].by = "export_data" => ~uploads[k].rerun

(***************************************************************************)
(* transforming/transformers.py, Transformer.                              *)
(*                                                                         *)
(* A pipeline function is named by a token and leaves that token on the    *)
(* value it is applied to, so that the value tells which functions ran     *)
(* and in which order.                                                     *)
(***************************************************************************)
MaxFunctions == 3

MaxOps == 3

PipelineFunctions == {"f", "g", "h"}

\* The values passed to transform.
Inputs == {<<"x">>, <<"y">>}

\* function(x)
Apply(function, x) == Append(x, function)

\* lambda x: f(g(x))
Compose(f, g) == f \o g

RECURSIVE CallFrom(_, _, _)
\* callable(x): the innermost function, the last of the sequence, runs first.
CallFrom(callable, k, x) ==
    IF k = 0 THEN x
    ELSE CallFrom(callable, k - 1, Apply(callable[k], x))

RECURSIVE ReduceFrom(_, _, _)
\* functools.reduce(lambda f, g: lambda x: f(g(x)), fns) from element k on,
\* acc being what the elements before gave.
ReduceFrom(acc, fns, k) ==
    IF k > Len(fns) THEN acc
    ELSE ReduceFrom(Compose(acc, <<fns[k]>>), fns, k + 1)

\* Transformer._update_pipeline
update_pipeline(fns) ==
    IF fns = <<>> THEN Identity
    ELSE ReduceFrom(<<fns[1]>>, fns, 2)

\* An index argument: None, or an integer.
NoIndex == [given |-> FALSE, at |-> 0]

Index(n) == [given |-> TRUE, at |-> n]

\* The position (from 0) list.insert(index, ...) inserts before.
InsertAt(fns, n) ==
    IF n < 0 THEN (IF Len(fns) + n < 0 THEN 0 ELSE Len(fns) + n)
    ELSE IF n > Len(fns) THEN Len(fns) ELSE n

\* self._functions.append(function) or self._functions.insert(index, function)
add_function(fns, function, index) ==
    IF ~index.given THEN Append(fns, function)
    ELSE SubSeq(fns, 1, InsertAt(fns, index.at)) \o <<function>>
         \o SubSeq(fns, InsertAt(fns, index.at) + 1, Len(fns))

\* del self._functions[index] finds an element.
InList(fns, n) == n < Len(fns) /\ n >= 0 - Len(fns)

\* del self._functions[index], for an index that finds an element
remove_function(fns, n) ==
    LET at == IF n < 0 THEN Len(fns) + n ELSE n
    IN  SubSeq(fns, 1, at) \o SubSeq(fns, at + 2, Len(fns))

\* Transformer(*pipeline_functions)
InitTransformer ==
    /\ pc = "start"
    /\ functions \in SeqsUpTo(PipelineFunctions, MaxFunctions)
    /\ pipeline = update_pipeline(functions)
    /\ last_call = NoOp
    /\ n_ops = 0
    /\ IdleExpand
    /\ IdleNormalize
    /\ IdleHeaders
    /\ IdleSearch
    /\ IdleIndexer
    /\ IdleHandler

\* One call on the transformer.
TransformerCall ==
    /\ n_ops < MaxOps
    /\ n_ops' = n_ops + 1
    /\ UNCHANGED <<pc, expandVars, normalizeVars, headerVars, searchVars, indexerVars,
                   handlerVars>>

CallSetFunctions ==
    \E fns \in SeqsUpTo(PipelineFunctions, MaxFunctions) :
        /\ functions' = fns
        /\ pipeline' = update_pipeline(functions')
        /\ last_call' = [NoOp EXCEPT !.fn = "set_functions"]
        /\ TransformerCall

CallAddFunction ==
    \E function \in PipelineFunctions,
       index \in {NoIndex} \cup {Index(n) : n \in (0 - 1)..MaxFunctions} :
        /\ Len(functions) < MaxFunctions
        /\ functions' = add_function(functions, function, index)
        /\ pipeline' = update_pipeline(functions')
        /\ last_call' = [NoOp EXCEPT !.fn = "add_function"]
        /\ TransformerCall

\* del raises IndexError before the pipeline is rebuilt.
CallRemoveFunction ==
    \E n \in (0 - 1)..MaxFunctions :
        /\ IF InList(functions, n)
           THEN /\ functions' = remove_function(functions, n)
                /\ pipeline' = update_pipeline(functions')
                /\ last_call' = [NoOp EXCEPT !.fn = "remove_function"]
           ELSE /\ UNCHANGED <<functions, pipeline>>
                /\ last_call' = [NoOp EXCEPT !.fn = "remove_function",
                                             !.raised = "IndexError"]
        /\ TransformerCall

\* Transformer.transform(df): return self.pipeline(df)
CallTransform ==
    \E x \in Inputs :
        /\ last_call' = [NoOp EXCEPT !.fn = "transform", !.x = x,
                                     !.ret = CallFrom(pipeline, Len(pipeline), x)]
        /\ UNCHANGED <<functions, pipeline>>
        /\ TransformerCall

NextTransformer ==
    \/ CallSetFunctions
    \/ CallAddFunction
    \/ CallRemoveFunction
    \/ CallTransform

SpecTransformer == InitTransformer /\ [][NextTransformer]_vars

(***************************************************************************)
(* Properties of Transformer.                                              *)
(***************************************************************************)
RECURSIVE InListOrderFrom(_, _, _)
\* The functions of the list from the k-th on applied to x one after the
\* other, each to what the one before returned.
InListOrderFrom(fns, k, x) ==
    IF k > Len(fns) THEN x
    ELSE InListOrderFrom(fns, k + 1, Apply(fns[k], x))

\* C21: after any sequence of construction, set_functions, add_function
\* (with or without an index) and remove_function calls, transform(x) is
\* what applying the functions of the current list to x in list order gives,
\* the first function first, and is x when the list is empty.
C21_AppliesInListOrder ==
    last_call.fn = "transform" =>
        last_call.ret = InListOrderFrom(functions, 1, last_call.x)

====
